---- MODULE Spec2Model ----
(***************************************************************************)
(* The candle time series of data/src/aggr/time.rs                         *)
(* (TimeSeries<KlineDataPoint>) with the per-bucket footprint of           *)
(* data/src/chart/kline.rs (KlineTrades, GroupedTrades, PointOfControl,    *)
(* NPoc).                                                                  *)
(*                                                                         *)
(* Prices are Price.units and price steps PriceStep.units (integers);      *)
(* quantities (f32 in the source) are naturals; an Option is a sequence of *)
(* length 0 or 1; a map (BTreeMap, FxHashMap) is a function on its key     *)
(* set.  The FxHashMap has no defined iteration order: wherever the source *)
(* iterates it, the model takes the order as a nondeterministic input.     *)
(***************************************************************************)
EXTENDS Integers, Sequences, FiniteSets, TLC

\* ------------------------------------------------------------ bounds

\* greatest timestamp (ms) of a trade or candle
MaxTime == 2
\* greatest raw price (units) of a trade or candle
MaxPrice == 2
\* greatest quantity of one trade
MaxQty == 1
\* greatest price step (units)
MaxTick == 2
\* greatest number of trades or candles in one call
MaxBatch == 2
\* greatest number of trades and candles passed in one run (a call without
\* any counts as one)
MaxWork == 3

\* self.interval.to_milliseconds(): the bucket width in ms
aggr_time == 2

\* ------------------------------------------------------------ helpers

Min(S) == CHOOSE x \in S : \A y \in S : x <= y

Max(S) == CHOOSE x \in S : \A y \in S : x >= y

\* the keys of a BTreeMap range in ascending order
RECURSIVE Ascending(_)
Ascending(S) ==
  IF S = {} THEN <<>>
  ELSE LET m == Min(S) IN <<m>> \o Ascending(S \ {m})

EmptyMap == <<>>

MapPut(m, k, v) == [x \in (DOMAIN m) \cup {k} |-> IF x = k THEN v ELSE m[x]]

Contains(seq, x) == \E i \in DOMAIN seq : seq[i] = x

\* the orders in which a hash map with key set S may be iterated
IterOrders(S) ==
  {s \in [1..Cardinality(S) -> S] : \A i, j \in DOMAIN s : i # j => s[i] # s[j]}

\* ------------------------------------------------------------ Price (exchange::util)

\* Price::round_to_step: the nearest multiple of step, a tie rounds up
round_to_step(price, step) ==
  IF step <= 1 THEN price ELSE ((price + (step \div 2)) \div step) * step

\* Price::round_to_side_step: a sell rounds down, a buy rounds up
round_to_side_step(price, is_sell, step) ==
  IF step <= 1 THEN price
  ELSE IF is_sell THEN (price \div step) * step
  ELSE ((price + step - 1) \div step) * step

\* ------------------------------------------------------------ NPoc

NPocNone == [kind |-> "None", at |-> 0]

NPocNaked == [kind |-> "Naked", at |-> 0]

NPocFilled(t) == [kind |-> "Filled", at |-> t]

\* ------------------------------------------------------------ GroupedTrades

\* GroupedTrades::new leaving the first trade of a bin uncounted
GroupedTrades_new_uncounted(trade) ==
  [buy_qty    |-> IF trade.is_sell THEN 0 ELSE trade.qty,
   sell_qty   |-> IF trade.is_sell THEN trade.qty ELSE 0,
   first_time |-> trade.time,
   last_time  |-> trade.time,
   buy_count  |-> 0,
   sell_count |-> 0]

GroupedTrades_new(trade) ==
  [buy_qty    |-> IF trade.is_sell THEN 0 ELSE trade.qty,
   sell_qty   |-> IF trade.is_sell THEN trade.qty ELSE 0,
   first_time |-> trade.time,
   last_time  |-> trade.time,
   buy_count  |-> IF trade.is_sell THEN 0 ELSE 1,
   sell_count |-> IF trade.is_sell THEN 1 ELSE 0]

\* add_trade storing the trade's quantity in place of adding it
GroupedTrades_add_trade_overwriting(group, trade) ==
  IF trade.is_sell
  THEN [group EXCEPT !.sell_qty = trade.qty, !.sell_count = @ + 1,
                     !.last_time = trade.time]
  ELSE [group EXCEPT !.buy_qty = trade.qty, !.buy_count = @ + 1,
                     !.last_time = trade.time]

GroupedTrades_add_trade(group, trade) ==
  IF trade.is_sell
  THEN [group EXCEPT !.sell_qty = @ + trade.qty, !.sell_count = @ + 1,
                     !.last_time = trade.time]
  ELSE [group EXCEPT !.buy_qty = @ + trade.qty, !.buy_count = @ + 1,
                     !.last_time = trade.time]

total_qty(group) == group.buy_qty + group.sell_qty

\* ------------------------------------------------------------ KlineTrades

KlineTrades_new == [trades |-> EmptyMap, poc |-> <<>>]

add_trade_to_nearest_bin(footprint, trade, step) ==
  LET price == round_to_step(trade.price, step)
      trades == footprint.trades
  IN [footprint EXCEPT !.trades =
        IF price \in DOMAIN trades
        THEN [trades EXCEPT ![price] = GroupedTrades_add_trade(trades[price], trade)]
        ELSE MapPut(trades, price, GroupedTrades_new(trade))]

\* the loop of calculate_poc over the bins in iteration order ord
RECURSIVE poc_scan(_, _, _, _)
poc_scan(trades, ord, max_volume, poc_price) ==
  IF ord = <<>> THEN [price |-> poc_price, volume |-> max_volume]
  ELSE LET price == Head(ord)
           total_volume == total_qty(trades[price])
       IN IF total_volume > max_volume
          THEN poc_scan(trades, Tail(ord), total_volume, price)
          ELSE poc_scan(trades, Tail(ord), max_volume, poc_price)

\* calculate_poc adding the volume it finds to the volume of the stored POC
calculate_poc_accumulating(footprint, ord) ==
  IF DOMAIN footprint.trades = {} THEN footprint
  ELSE LET r == poc_scan(footprint.trades, ord, 0, 0)
           stored == IF footprint.poc = <<>> THEN 0 ELSE footprint.poc[1].volume
       IN [footprint EXCEPT !.poc =
             <<[price |-> r.price, volume |-> r.volume + stored, status |-> NPocNone]>>]

\* calculate_poc without its early return on an empty bin map
calculate_poc_without_return(footprint, ord) ==
  LET r == poc_scan(footprint.trades, ord, 0, 0)
  IN [footprint EXCEPT !.poc =
        <<[price |-> r.price, volume |-> r.volume, status |-> NPocNone]>>]

calculate_poc(footprint, ord) ==
  IF DOMAIN footprint.trades = {} THEN footprint
  ELSE LET r == poc_scan(footprint.trades, ord, 0, 0)
       IN [footprint EXCEPT !.poc =
             <<[price |-> r.price, volume |-> r.volume, status |-> NPocNone]>>]

set_poc_status(footprint, status) ==
  IF footprint.poc = <<>> THEN footprint
  ELSE [footprint EXCEPT !.poc = <<[footprint.poc[1] EXCEPT !.status = status]>>]

\* clear dropping the price bins and keeping the POC
KlineTrades_clear_bins_only(footprint) == [footprint EXCEPT !.trades = EmptyMap]

KlineTrades_clear(footprint) == [footprint EXCEPT !.trades = EmptyMap, !.poc = <<>>]

\* ------------------------------------------------------------ KlineDataPoint

\* add_trade that also reseeds the candle's prices from the trade
KlineDataPoint_add_trade_reseeding(dp, trade, step) ==
  [dp EXCEPT !.footprint = add_trade_to_nearest_bin(dp.footprint, trade, step),
             !.kline.open = trade.price, !.kline.high = trade.price,
             !.kline.low = trade.price, !.kline.close = trade.price]

KlineDataPoint_add_trade(dp, trade, step) ==
  [dp EXCEPT !.footprint = add_trade_to_nearest_bin(dp.footprint, trade, step)]

has_poc(dp) == dp.footprint.poc # <<>>

poc_of(dp) == dp.footprint.poc[1]

\* ------------------------------------------------------------ TimeSeries

clear_trades(datapoints) ==
  [t \in DOMAIN datapoints |->
     [datapoints[t] EXCEPT !.footprint = KlineTrades_clear(datapoints[t].footprint)]]

\* scan_forward without its break: a later fill overrides the first
RECURSIVE scan_forward_without_break(_, _, _, _, _)
scan_forward_without_break(datapoints, tick, poc_price, next_times, npoc) ==
  IF next_times = <<>> THEN npoc
  ELSE LET next_time == Head(next_times)
           next_dp == datapoints[next_time]
           next_dp_low == round_to_side_step(next_dp.kline.low, TRUE, tick)
           next_dp_high == round_to_side_step(next_dp.kline.high, FALSE, tick)
       IN IF next_dp_low <= poc_price /\ next_dp_high >= poc_price
          THEN scan_forward_without_break(datapoints, tick, poc_price,
                 Tail(next_times), NPocFilled(next_time))
          ELSE scan_forward_without_break(datapoints, tick, poc_price,
                 Tail(next_times), IF npoc.kind = "Filled" THEN npoc ELSE NPocNaked)

\* the forward scan of update_poc_status for one bucket
RECURSIVE scan_forward(_, _, _, _, _)
scan_forward(datapoints, tick, poc_price, next_times, npoc) ==
  IF next_times = <<>> THEN npoc
  ELSE LET next_time == Head(next_times)
           next_dp == datapoints[next_time]
           next_dp_low == round_to_side_step(next_dp.kline.low, TRUE, tick)
           next_dp_high == round_to_side_step(next_dp.kline.high, FALSE, tick)
       IN IF next_dp_low <= poc_price /\ next_dp_high >= poc_price
          THEN NPocFilled(next_time)
          ELSE scan_forward(datapoints, tick, poc_price, Tail(next_times), NPocNaked)

\* update_poc_status scanning from the bucket itself: range(current_time..)
update_poc_status_from_current(datapoints, tick) ==
  [current_time \in DOMAIN datapoints |->
     LET dp == datapoints[current_time]
     IN IF ~has_poc(dp) THEN dp
        ELSE [dp EXCEPT !.footprint =
                set_poc_status(dp.footprint,
                  scan_forward(datapoints, tick, poc_of(dp).price,
                    Ascending({t \in DOMAIN datapoints : t >= current_time}),
                    NPocNone))]]

update_poc_status(datapoints, tick) ==
  [current_time \in DOMAIN datapoints |->
     LET dp == datapoints[current_time]
     IN IF ~has_poc(dp) THEN dp
        ELSE [dp EXCEPT !.footprint =
                set_poc_status(dp.footprint,
                  scan_forward(datapoints, tick, poc_of(dp).price,
                    Ascending({t \in DOMAIN datapoints : t >= current_time + 1}),
                    NPocNone))]]

\* upsert_klines with or_insert_with alone: an existing bucket keeps its candle
RECURSIVE upsert_klines_insert_only(_, _)
upsert_klines_insert_only(datapoints, klines) ==
  IF klines = <<>> THEN datapoints
  ELSE LET kline == Head(klines)
       IN upsert_klines_insert_only(
            IF kline.time \in DOMAIN datapoints THEN datapoints
            ELSE MapPut(datapoints, kline.time,
                        [kline |-> kline, footprint |-> KlineTrades_new]),
            Tail(klines))

\* the loop of insert_klines: entry(kline.time).or_insert_with(..), entry.kline = *kline
RECURSIVE upsert_klines(_, _)
upsert_klines(datapoints, klines) ==
  IF klines = <<>> THEN datapoints
  ELSE LET kline == Head(klines)
           entry == IF kline.time \in DOMAIN datapoints
                    THEN datapoints[kline.time]
                    ELSE [kline |-> kline, footprint |-> KlineTrades_new]
       IN upsert_klines(MapPut(datapoints, kline.time, [entry EXCEPT !.kline = kline]),
                        Tail(klines))

insert_klines(datapoints, tick, klines) ==
  update_poc_status(upsert_klines(datapoints, klines), tick)

\* TimeSeries::new
TimeSeries_new(tick, klines) == insert_klines(EmptyMap, tick, klines)

\* rounded_time_of without the rounding
rounded_time_unrounded(trade) == trade.time

\* rounded_time_of rounding up to the next bucket boundary
rounded_time_up(trade) == ((trade.time + aggr_time - 1) \div aggr_time) * aggr_time

rounded_time_of(trade) == (trade.time \div aggr_time) * aggr_time

\* new_bucket with only open and close seeded from the trade
new_bucket_default_extremes(rounded_time, trade) ==
  [kline |-> [time |-> rounded_time, open |-> trade.price, high |-> 0,
              low |-> 0, close |-> trade.price, volume |-> <<0, 0>>],
   footprint |-> KlineTrades_new]

\* the bucket insert_trades_or_create_bucket creates for a trade
new_bucket(rounded_time, trade) ==
  [kline |-> [time |-> rounded_time, open |-> trade.price, high |-> trade.price,
              low |-> trade.price, close |-> trade.price, volume |-> <<0, 0>>],
   footprint |-> KlineTrades_new]

\* the first loop with insert in place of entry().or_insert_with(): a trade
\* replaces the bucket it is routed to by a new one
RECURSIVE route_or_create_replacing(_, _, _, _)
route_or_create_replacing(datapoints, tick, buffer, updated_times) ==
  IF buffer = <<>> THEN [datapoints |-> datapoints, updated_times |-> updated_times]
  ELSE LET trade == Head(buffer)
           rounded_time == rounded_time_of(trade)
           times == IF Contains(updated_times, rounded_time) THEN updated_times
                    ELSE Append(updated_times, rounded_time)
       IN route_or_create_replacing(
            MapPut(datapoints, rounded_time,
                   KlineDataPoint_add_trade(new_bucket(rounded_time, trade), trade, tick)),
            tick, Tail(buffer), times)

\* the first loop of insert_trades_or_create_bucket
RECURSIVE route_or_create(_, _, _, _)
route_or_create(datapoints, tick, buffer, updated_times) ==
  IF buffer = <<>> THEN [datapoints |-> datapoints, updated_times |-> updated_times]
  ELSE LET trade == Head(buffer)
           rounded_time == rounded_time_of(trade)
           times == IF Contains(updated_times, rounded_time) THEN updated_times
                    ELSE Append(updated_times, rounded_time)
           entry == IF rounded_time \in DOMAIN datapoints
                    THEN datapoints[rounded_time]
                    ELSE new_bucket(rounded_time, trade)
       IN route_or_create(
            MapPut(datapoints, rounded_time, KlineDataPoint_add_trade(entry, trade, tick)),
            tick, Tail(buffer), times)

\* route_existing with the entry API of route_or_create: a missing bucket is created
route_existing_creating(datapoints, tick, buffer, updated_times) ==
  route_or_create(datapoints, tick, buffer, updated_times)

\* the first loop of insert_trades_existing_buckets
RECURSIVE route_existing(_, _, _, _)
route_existing(datapoints, tick, buffer, updated_times) ==
  IF buffer = <<>> THEN [datapoints |-> datapoints, updated_times |-> updated_times]
  ELSE LET trade == Head(buffer)
           rounded_time == rounded_time_of(trade)
       IN IF rounded_time \in DOMAIN datapoints
          THEN route_existing(
                 [datapoints EXCEPT ![rounded_time] =
                    KlineDataPoint_add_trade(datapoints[rounded_time], trade, tick)],
                 tick, Tail(buffer),
                 IF Contains(updated_times, rounded_time) THEN updated_times
                 ELSE Append(updated_times, rounded_time))
          ELSE route_existing(datapoints, tick, Tail(buffer), updated_times)

\* calculate_poc on the buckets at times, one after the other
RECURSIVE recalculate_each(_, _)
recalculate_each(datapoints, times) ==
  IF times = <<>> THEN {datapoints}
  ELSE LET time == Head(times)
       IN UNION {
            recalculate_each(
              [datapoints EXCEPT ![time] =
                 [datapoints[time] EXCEPT !.footprint =
                    calculate_poc(datapoints[time].footprint, ord)]],
              Tail(times))
            : ord \in IterOrders(DOMAIN datapoints[time].footprint.trades)}

\* the second loop stopping after the first updated bucket
recalculate_pocs_first_only(datapoints, updated_times) ==
  recalculate_each(datapoints,
                   SubSeq(SelectSeq(updated_times, LAMBDA t : t \in DOMAIN datapoints), 1, 1))

\* the second loop running over every bucket of the series
recalculate_pocs_whole_series(datapoints, updated_times) ==
  recalculate_each(datapoints, Ascending(DOMAIN datapoints))

\* the second loop of both: calculate_poc on every updated bucket; the set of
\* results over the iteration orders of the buckets' hash maps
RECURSIVE recalculate_pocs(_, _)
recalculate_pocs(datapoints, updated_times) ==
  IF updated_times = <<>> THEN {datapoints}
  ELSE LET time == Head(updated_times)
       IN IF time \notin DOMAIN datapoints
          THEN recalculate_pocs(datapoints, Tail(updated_times))
          ELSE UNION {
                 recalculate_pocs(
                   [datapoints EXCEPT ![time] =
                      [datapoints[time] EXCEPT !.footprint =
                         calculate_poc(datapoints[time].footprint, ord)]],
                   Tail(updated_times))
                 : ord \in IterOrders(DOMAIN datapoints[time].footprint.trades)}

\* the possible results of insert_trades_or_create_bucket
insert_trades_or_create_bucket(datapoints, tick, buffer) ==
  IF buffer = <<>> THEN {datapoints}
  ELSE LET r == route_or_create(datapoints, tick, buffer, <<>>)
       IN recalculate_pocs(r.datapoints, r.updated_times)

\* the possible results of insert_trades_existing_buckets
insert_trades_existing_buckets(datapoints, tick, buffer) ==
  IF buffer = <<>> THEN {datapoints}
  ELSE LET r == route_existing(datapoints, tick, buffer, <<>>)
       IN recalculate_pocs(r.datapoints, r.updated_times)

\* with_trades inserting into the receiver's own map and returning it
with_trades_in_place(datapoints, tick, trades) ==
  {[receiver |-> s, new_series |-> s] :
     s \in insert_trades_or_create_bucket(datapoints, tick, trades)}

\* the possible results of with_trades: the receiver after the call and the
\* series returned, a clone of the receiver's map fed the trades
with_trades(datapoints, tick, trades) ==
  {[receiver |-> datapoints, new_series |-> s] :
     s \in insert_trades_or_create_bucket(datapoints, tick, trades)}

\* change_tick_size without clear_trades
change_tick_size_without_clear(datapoints, new_tick, raw_trades) ==
  IF raw_trades # <<>>
  THEN insert_trades_existing_buckets(datapoints, new_tick, raw_trades)
  ELSE {datapoints}

\* change_tick_size replaying through insert_trades_or_create_bucket
change_tick_size_creating(datapoints, new_tick, raw_trades) ==
  LET cleared == clear_trades(datapoints)
  IN IF raw_trades # <<>>
     THEN insert_trades_or_create_bucket(cleared, new_tick, raw_trades)
     ELSE {cleared}

\* the possible results of change_tick_size (the datapoints; tick_size becomes new_tick)
change_tick_size(datapoints, new_tick, raw_trades) ==
  LET cleared == clear_trades(datapoints)
  IN IF raw_trades # <<>>
     THEN insert_trades_existing_buckets(cleared, new_tick, raw_trades)
     ELSE {cleared}

\* ------------------------------------------------------------ queries

\* greatest timestamp (ms) of a trade or candle of a queried series
MaxQueryTime == 3

\* u64::MAX, scaled to the model's timestamps
U64_MAX == MaxQueryTime + 1

\* the result of a call that returned value
Returned(value) == [kind |-> "ok", value |-> value]

\* a call that panicked
Aborted == [kind |-> "abort", value |-> <<>>]

\* a call that never returns
Diverged == [kind |-> "diverge", value |-> <<>>]

\* u64 += : the sum, or "overflow" when the build checks overflow and it occurs
add_u64(a, b, overflow_checks) ==
  IF a + b <= U64_MAX THEN <<a + b>>
  ELSE IF overflow_checks THEN <<>>
  ELSE <<(a + b) % (U64_MAX + 1)>>

\* BTreeMap::range(lo..=hi) on the keys of a map: the keys in ascending order;
\* on a map with a root node a start above the end panics
range_inclusive(dps, lo, hi) ==
  IF DOMAIN dps # {} /\ lo > hi THEN Aborted
  ELSE Returned(Ascending({k \in DOMAIN dps : lo <= k /\ k <= hi}))

\* KlineTrades::first_trade_t
first_trade_t(footprint) ==
  IF DOMAIN footprint.trades = {} THEN <<>>
  ELSE <<Min({footprint.trades[p].first_time : p \in DOMAIN footprint.trades})>>

\* KlineTrades::last_trade_t
last_trade_t(footprint) ==
  IF DOMAIN footprint.trades = {} THEN <<>>
  ELSE <<Max({footprint.trades[p].last_time : p \in DOMAIN footprint.trades})>>

\* base_price reading the bucket with the least key
base_price_of_first(dps) ==
  IF DOMAIN dps = {} THEN 0 ELSE dps[Min(DOMAIN dps)].kline.close

\* TimeSeries::base_price: values().last().map_or(0, last_price)
base_price(dps) ==
  IF DOMAIN dps = {} THEN 0 ELSE dps[Max(DOMAIN dps)].kline.close

\* TimeSeries::latest_timestamp: keys().last().copied()
latest_timestamp(dps) ==
  IF DOMAIN dps = {} THEN <<>> ELSE <<Max(DOMAIN dps)>>

\* TimeSeries::timerange
timerange(dps) ==
  IF DOMAIN dps = {} THEN <<0, 0>> ELSE <<Min(DOMAIN dps), Max(DOMAIN dps)>>

\* find_map over the buckets at times (in that order) of f(footprint)
RECURSIVE find_map_trade_time(_, _, _)
find_map_trade_time(dps, times, latest_end) ==
  IF times = <<>> THEN <<>>
  ELSE LET t == IF latest_end THEN last_trade_t(dps[Head(times)].footprint)
                ELSE first_trade_t(dps[Head(times)].footprint)
       IN IF t # <<>> THEN t ELSE find_map_trade_time(dps, Tail(times), latest_end)

\* a sequence in reverse order
Reverse(s) == [i \in DOMAIN s |-> s[Len(s) + 1 - i]]

\* find_trade_gap taking the least bucket without trades
find_trade_gap_from_front(dps) ==
  LET empty == {k \in DOMAIN dps : DOMAIN dps[k].footprint.trades = {}}
  IN IF empty = {} THEN <<>>
     ELSE LET target_time == Min(empty)
          IN <<[last_t_before_gap |->
                  find_map_trade_time(dps,
                    Reverse(Ascending({k \in DOMAIN dps : k < target_time})), TRUE),
                first_t_after_gap |->
                  find_map_trade_time(dps,
                    Ascending({k \in DOMAIN dps : k >= target_time + 1}), FALSE)]>>

\* TimeSeries::find_trade_gap
find_trade_gap(dps) ==
  LET empty == {k \in DOMAIN dps : DOMAIN dps[k].footprint.trades = {}}
  IN IF empty = {} THEN <<>>
     ELSE LET target_time == Max(empty)
          IN <<[last_t_before_gap |->
                  find_map_trade_time(dps,
                    Reverse(Ascending({k \in DOMAIN dps : k < target_time})), TRUE),
                first_t_after_gap |->
                  find_map_trade_time(dps,
                    Ascending({k \in DOMAIN dps : k >= target_time + 1}), FALSE)]>>

\* the window of suggest_trade_fetch_range without the + 1 and - 1
fetch_window_touching(dps, gap, visible_earliest, visible_latest) ==
  LET range == timerange(dps)
      fetch_from == Max({IF gap.last_t_before_gap = <<>> THEN range[1]
                         ELSE gap.last_t_before_gap[1],
                         visible_earliest})
      fetch_to == Min({IF gap.first_t_after_gap = <<>> THEN range[2]
                       ELSE gap.first_t_after_gap[1],
                       visible_latest})
  IN IF fetch_from < fetch_to THEN <<(<<fetch_from, fetch_to>>)>> ELSE <<>>

\* the closure of suggest_trade_fetch_range on a gap with a trade on some side
fetch_window(dps, gap, visible_earliest, visible_latest) ==
  LET range == timerange(dps)
      fetch_from == Max({IF gap.last_t_before_gap = <<>> THEN range[1]
                         ELSE Min({gap.last_t_before_gap[1] + 1, U64_MAX}),
                         visible_earliest})
      fetch_to == Min({IF gap.first_t_after_gap = <<>> THEN range[2]
                       ELSE Max({gap.first_t_after_gap[1] - 1, 0}),
                       visible_latest})
  IN IF fetch_from < fetch_to THEN <<(<<fetch_from, fetch_to>>)>> ELSE <<>>

\* suggest_trade_fetch_range without the early return for a gap with no trade
\* on either side
suggest_trade_fetch_range_without_none_check(dps, visible_earliest, visible_latest) ==
  IF DOMAIN dps = {} THEN <<>>
  ELSE LET found == find_trade_gap(dps)
       IN IF found = <<>> THEN <<>>
          ELSE fetch_window(dps, found[1], visible_earliest, visible_latest)

\* TimeSeries::suggest_trade_fetch_range
suggest_trade_fetch_range(dps, visible_earliest, visible_latest) ==
  IF DOMAIN dps = {} THEN <<>>
  ELSE LET found == find_trade_gap(dps)
       IN IF found = <<>> THEN <<>>
          ELSE IF found[1].last_t_before_gap = <<>> /\ found[1].first_t_after_gap = <<>>
          THEN <<>>
          ELSE fetch_window(dps, found[1], visible_earliest, visible_latest)

\* the loop of price_scale over the remaining buckets, newest first
RECURSIVE price_scale_fold(_, _, _, _)
price_scale_fold(dps, times, high, low) ==
  IF times = <<>> THEN <<high, low>>
  ELSE LET kline == dps[Head(times)].kline
       IN price_scale_fold(dps, Tail(times),
                           IF kline.high > high THEN kline.high ELSE high,
                           IF kline.low < low THEN kline.low ELSE low)

\* price_scale scanning every bucket whatever the lookback
price_scale_whole_series(dps, lookback) ==
  LET taken == Reverse(Ascending(DOMAIN dps))
  IN IF taken = <<>> THEN <<0, 0>>
     ELSE price_scale_fold(dps, Tail(taken), dps[Head(taken)].kline.high,
                           dps[Head(taken)].kline.low)

\* TimeSeries::price_scale: (high, low) over the lookback newest buckets
price_scale(dps, lookback) ==
  LET newest_first == Reverse(Ascending(DOMAIN dps))
      taken == SubSeq(newest_first, 1, Min({lookback, Len(newest_first)}))
  IN IF taken = <<>> THEN <<0, 0>>
     ELSE price_scale_fold(dps, Tail(taken), dps[Head(taken)].kline.high,
                           dps[Head(taken)].kline.low)

\* the loop of min_max_price_in_range_prices over the remaining buckets
RECURSIVE min_max_fold(_, _, _, _)
min_max_fold(dps, times, min_price, max_price) ==
  IF times = <<>> THEN <<min_price, max_price>>
  ELSE LET kline == dps[Head(times)].kline
       IN min_max_fold(dps, Tail(times),
                       IF kline.low < min_price THEN kline.low ELSE min_price,
                       IF kline.high > max_price THEN kline.high ELSE max_price)

\* min_max_price_in_range_prices with the end of the range excluded
min_max_price_in_range_exclusive(dps, earliest, latest) ==
  LET it == range_inclusive(dps, earliest, latest)
      times == IF it.kind = "ok" THEN SelectSeq(it.value, LAMBDA k : k < latest) ELSE <<>>
  IN IF it.kind # "ok" THEN it
     ELSE IF times = <<>> THEN Returned(<<>>)
     ELSE Returned(<<min_max_fold(dps, Tail(times), dps[Head(times)].kline.low,
                                  dps[Head(times)].kline.high)>>)

\* TimeSeries::min_max_price_in_range_prices
min_max_price_in_range_prices(dps, earliest, latest) ==
  LET it == range_inclusive(dps, earliest, latest)
  IN IF it.kind # "ok" THEN it
     ELSE IF it.value = <<>> THEN Returned(<<>>)
     ELSE Returned(<<min_max_fold(dps, Tail(it.value), dps[Head(it.value)].kline.low,
                                  dps[Head(it.value)].kline.high)>>)

ClusterKinds == {"BidAsk", "DeltaProfile", "VolumeProfile"}

\* the closure KlineDataPoint::max_cluster_qty passes to max_qty_by
cluster_value(cluster_kind, buy, sell) ==
  CASE cluster_kind = "BidAsk" -> IF buy >= sell THEN buy ELSE sell
    [] cluster_kind = "DeltaProfile" -> IF buy >= sell THEN buy - sell ELSE sell - buy
    [] OTHER -> buy + sell

\* max_qty_by without the test of the price against [lowest, highest]
RECURSIVE max_qty_by_any_price(_, _, _, _, _, _)
max_qty_by_any_price(trades, ord, highest, lowest, cluster_kind, max_qty) ==
  IF ord = <<>> THEN max_qty
  ELSE LET price == Head(ord)
           qty == cluster_value(cluster_kind, trades[price].buy_qty, trades[price].sell_qty)
       IN max_qty_by_any_price(trades, Tail(ord), highest, lowest, cluster_kind,
                               IF qty > max_qty THEN qty ELSE max_qty)

\* KlineTrades::max_qty_by over the bins in order ord (a maximum: any order
\* gives the same)
RECURSIVE max_qty_by(_, _, _, _, _, _)
max_qty_by(trades, ord, highest, lowest, cluster_kind, max_qty) ==
  IF ord = <<>> THEN max_qty
  ELSE LET price == Head(ord)
           qty == cluster_value(cluster_kind, trades[price].buy_qty, trades[price].sell_qty)
       IN max_qty_by(trades, Tail(ord), highest, lowest, cluster_kind,
                     IF price >= lowest /\ price <= highest /\ qty > max_qty
                     THEN qty ELSE max_qty)

\* KlineDataPoint::max_cluster_qty
max_cluster_qty(dp, cluster_kind, highest, lowest) ==
  max_qty_by(dp.footprint.trades, Ascending(DOMAIN dp.footprint.trades),
             highest, lowest, cluster_kind, 0)

\* the for_each of max_qty_ts_range
RECURSIVE max_qty_fold(_, _, _, _, _, _)
max_qty_fold(dps, times, cluster_kind, highest, lowest, max_cluster) ==
  IF times = <<>> THEN max_cluster
  ELSE LET qty == max_cluster_qty(dps[Head(times)], cluster_kind, highest, lowest)
       IN max_qty_fold(dps, Tail(times), cluster_kind, highest, lowest,
                       IF qty > max_cluster THEN qty ELSE max_cluster)

\* TimeSeries::max_qty_ts_range
max_qty_ts_range(dps, cluster_kind, earliest, latest, highest, lowest) ==
  LET it == range_inclusive(dps, earliest, latest)
  IN IF it.kind # "ok" THEN it
     ELSE Returned(max_qty_fold(dps, it.value, cluster_kind, highest, lowest, 0))

\* the first loop of check_kline_integrity: is a key missing
RECURSIVE integrity_probe(_, _, _, _, _, _)
integrity_probe(dps, time, latest, interval, overflow_checks, fuel) ==
  IF ~(time < latest) THEN Returned(FALSE)
  ELSE IF time \notin DOMAIN dps THEN Returned(TRUE)
  ELSE IF fuel = 0 THEN Diverged
  ELSE LET next == add_u64(time, interval, overflow_checks)
       IN IF next = <<>> THEN Aborted
          ELSE integrity_probe(dps, next[1], latest, interval, overflow_checks, fuel - 1)

\* the second loop of check_kline_integrity: collect the missing keys
RECURSIVE integrity_collect(_, _, _, _, _, _, _)
integrity_collect(dps, time, latest, interval, overflow_checks, fuel, missing_keys) ==
  IF ~(time < latest) THEN Returned(<<missing_keys>>)
  ELSE IF fuel = 0 THEN Diverged
  ELSE LET next == add_u64(time, interval, overflow_checks)
           pushed == IF time \notin DOMAIN dps THEN Append(missing_keys, time)
                     ELSE missing_keys
       IN IF next = <<>> THEN Aborted
          ELSE integrity_collect(dps, next[1], latest, interval, overflow_checks,
                                 fuel - 1, pushed)

\* check_kline_integrity with latest included in the scan
integrity_run_inclusive_end(dps, earliest, latest, interval, overflow_checks) ==
  LET probe == integrity_probe(dps, earliest, latest + 1, interval, overflow_checks,
                               U64_MAX + 1)
  IN IF probe.kind # "ok" THEN probe
     ELSE IF probe.value
     THEN IF interval = 0 THEN Aborted
          ELSE integrity_collect(dps, earliest, latest + 1, interval, overflow_checks,
                                 U64_MAX + 1, <<>>)
     ELSE Returned(<<>>)

\* check_kline_integrity in one build: a loop that runs more steps than there
\* are u64 values repeats a value of time and never ends; the capacity
\* (latest - earliest) / interval divides by zero when interval is 0
integrity_run(dps, earliest, latest, interval, overflow_checks) ==
  LET probe == integrity_probe(dps, earliest, latest, interval, overflow_checks,
                               U64_MAX + 1)
  IN IF probe.kind # "ok" THEN probe
     ELSE IF probe.value
     THEN IF interval = 0 THEN Aborted
          ELSE integrity_collect(dps, earliest, latest, interval, overflow_checks,
                                 U64_MAX + 1, <<>>)
     ELSE Returned(<<>>)

\* TimeSeries::check_kline_integrity: the outcomes over the builds with and
\* without overflow checks
check_kline_integrity(dps, earliest, latest, interval) ==
  {integrity_run(dps, earliest, latest, interval, overflow_checks) :
     overflow_checks \in BOOLEAN}

\* ------------------------------------------------------------ inputs

Times == 0..MaxTime

Prices == 1..MaxPrice

TickSizes == 1..MaxTick

Trades == [time : Times, price : Prices, qty : 0..MaxQty, is_sell : BOOLEAN]

Klines ==
  {k \in [time : Times, open : Prices, high : Prices, low : Prices, close : Prices,
          volume : {<<MaxQty, MaxQty>>}] :
     k.low <= k.open /\ k.low <= k.close /\ k.open <= k.high /\ k.close <= k.high}

\* the batches of 1..n elements of S
Batches(S, n) == UNION {[1..m -> S] : m \in 1..n}

\* ------------------------------------------------------------ state

VARIABLES
  datapoints,   \* TimeSeries.datapoints
  tick_size,    \* TimeSeries.tick_size
  last,         \* the last call and its arguments
  work,         \* the trades and candles passed and the calls made so far
  prev          \* datapoints before the last call

vars == <<datapoints, tick_size, last, work, prev>>

Call(op, klines, trades, step) ==
  [op |-> op, klines |-> klines, trades |-> trades, step |-> step]

\* what a call with this batch adds to work
Cost(batch) == IF batch = <<>> THEN 1 ELSE Len(batch)

\* the batches a call may still pass, the empty one included
Inputs(S) ==
  IF work >= MaxWork THEN {}
  ELSE {<<>>} \cup Batches(S, Min({MaxBatch, MaxWork - work}))

Init ==
  /\ tick_size \in TickSizes
  /\ datapoints = TimeSeries_new(tick_size, <<>>)
  /\ last = Call("new", <<>>, <<>>, tick_size)
  /\ work = 0
  /\ prev = datapoints

InsertKlines ==
  \E klines \in Inputs(Klines) :
    /\ datapoints' = insert_klines(datapoints, tick_size, klines)
    /\ last' = Call("insert_klines", klines, <<>>, tick_size)
    /\ work' = work + Cost(klines)
    /\ prev' = datapoints
    /\ UNCHANGED tick_size

InsertTradesOrCreateBucket ==
  \E buffer \in Inputs(Trades) :
    /\ datapoints' \in insert_trades_or_create_bucket(datapoints, tick_size, buffer)
    /\ last' = Call("insert_trades_or_create_bucket", <<>>, buffer, tick_size)
    /\ work' = work + Cost(buffer)
    /\ prev' = datapoints
    /\ UNCHANGED tick_size

InsertTradesExistingBuckets ==
  \E buffer \in Inputs(Trades) :
    /\ datapoints' \in insert_trades_existing_buckets(datapoints, tick_size, buffer)
    /\ last' = Call("insert_trades_existing_buckets", <<>>, buffer, tick_size)
    /\ work' = work + Cost(buffer)
    /\ prev' = datapoints
    /\ UNCHANGED tick_size

ChangeTickSize ==
  \E new_tick \in TickSizes, raw_trades \in Inputs(Trades) :
    /\ datapoints' \in change_tick_size(datapoints, new_tick, raw_trades)
    /\ tick_size' = new_tick
    /\ last' = Call("change_tick_size", <<>>, raw_trades, new_tick)
    /\ work' = work + Cost(raw_trades)
    /\ prev' = datapoints

UpdatePocStatus ==
  /\ work < MaxWork
  /\ datapoints' = update_poc_status(datapoints, tick_size)
  /\ last' = Call("update_poc_status", <<>>, <<>>, tick_size)
  /\ work' = work + 1
  /\ prev' = datapoints
  /\ UNCHANGED tick_size

ClearTrades ==
  /\ work < MaxWork
  /\ datapoints' = clear_trades(datapoints)
  /\ last' = Call("clear_trades", <<>>, <<>>, tick_size)
  /\ work' = work + 1
  /\ prev' = datapoints
  /\ UNCHANGED tick_size

\* KlineDataPoint::calculate_poc on the bucket at time.  A hash map that was not
\* modified iterates in the same order again: a call that directly follows a
\* call on the same bucket scans the bins in that call's order.  One such
\* repeated call is made even when the run's work is used up.
CalculatePoc ==
  /\ \E time \in DOMAIN datapoints :
       \E ord \in IterOrders(DOMAIN datapoints[time].footprint.trades) :
         LET again == last.op = "calculate_poc" /\ last.time = time
         IN /\ work < MaxWork \/ (again /\ ~last.again)
            /\ again => ord = last.ord
            /\ datapoints' =
                 [datapoints EXCEPT ![time].footprint = calculate_poc(@, ord)]
            /\ last' = [op |-> "calculate_poc", klines |-> <<>>, trades |-> <<>>,
                        step |-> tick_size, time |-> time, ord |-> ord,
                        again |-> again]
  /\ work' = Min({work + 1, MaxWork})
  /\ prev' = datapoints
  /\ UNCHANGED tick_size

Next ==
  \/ InsertKlines
  \/ InsertTradesOrCreateBucket
  \/ InsertTradesExistingBuckets
  \/ ChangeTickSize
  \/ UpdatePocStatus
  \/ ClearTrades
  \/ CalculatePoc

Spec == Init /\ [][Next]_vars

\* ------------------------------------------------------------ queries on a series

\* flat candles
QueryKlines ==
  {[time |-> t, open |-> p, high |-> p, low |-> p, close |-> p,
    volume |-> <<MaxQty, MaxQty>>] : t \in 0..MaxQueryTime, p \in Prices}

\* candle histories with increasing timestamps
QueryHistories ==
  {klines \in {<<>>} \cup Batches(QueryKlines, MaxBatch) :
     \A i \in 1..(Len(klines) - 1) : klines[i].time < klines[i + 1].time}

QueryTrades ==
  [time : 0..MaxQueryTime, price : Prices, qty : {MaxQty}, is_sell : BOOLEAN]

\* queries of one behaviour
MaxQueries == 1

\* the timestamps a query may pass
QueryTimes == 0..U64_MAX

Query(op, args, result) == [op |-> op, args |-> args, result |-> result]

\* a series built by TimeSeries::new at price step 1 over a candle history and
\* fed one batch of trades
QueryInit ==
  /\ tick_size = 1
  /\ \E klines \in QueryHistories, buffer \in {<<>>} \cup Batches(QueryTrades, MaxBatch) :
       datapoints \in
         insert_trades_or_create_bucket(TimeSeries_new(tick_size, klines), tick_size, buffer)
  /\ last = Call("new", <<>>, <<>>, tick_size)
  /\ work = 0
  /\ prev = datapoints

CheckKlineIntegrity ==
  /\ work < MaxQueries
  /\ \E earliest, latest \in QueryTimes, interval \in 0..aggr_time :
       \E result \in check_kline_integrity(datapoints, earliest, latest, interval) :
         last' = Query("check_kline_integrity", <<earliest, latest, interval>>, result)
  /\ work' = work + 1
  /\ prev' = datapoints
  /\ UNCHANGED <<datapoints, tick_size>>

SuggestTradeFetchRange ==
  /\ work < MaxQueries
  /\ \E visible_earliest, visible_latest \in QueryTimes :
       last' = Query("suggest_trade_fetch_range", <<visible_earliest, visible_latest>>,
                     Returned(suggest_trade_fetch_range(datapoints, visible_earliest,
                                                        visible_latest)))
  /\ work' = work + 1
  /\ prev' = datapoints
  /\ UNCHANGED <<datapoints, tick_size>>

PriceScale ==
  /\ work < MaxQueries
  /\ \E lookback \in 0..(MaxQueryTime + 2) :
       last' = Query("price_scale", <<lookback>>, Returned(price_scale(datapoints, lookback)))
  /\ work' = work + 1
  /\ prev' = datapoints
  /\ UNCHANGED <<datapoints, tick_size>>

MinMaxPriceInRange ==
  /\ work < MaxQueries
  /\ \E earliest, latest \in QueryTimes :
       last' = Query("min_max_price_in_range", <<earliest, latest>>,
                     min_max_price_in_range_prices(datapoints, earliest, latest))
  /\ work' = work + 1
  /\ prev' = datapoints
  /\ UNCHANGED <<datapoints, tick_size>>

MaxQtyTsRange ==
  /\ work < MaxQueries
  /\ \E cluster_kind \in ClusterKinds, earliest, latest \in Times, highest, lowest \in Prices :
       last' = Query("max_qty_ts_range", <<cluster_kind, earliest, latest, highest, lowest>>,
                     max_qty_ts_range(datapoints, cluster_kind, earliest, latest,
                                      highest, lowest))
  /\ work' = work + 1
  /\ prev' = datapoints
  /\ UNCHANGED <<datapoints, tick_size>>

BasePrice ==
  /\ work < MaxQueries
  /\ last' = Query("base_price", <<>>, Returned(base_price(datapoints)))
  /\ work' = work + 1
  /\ prev' = datapoints
  /\ UNCHANGED <<datapoints, tick_size>>

LatestTimestamp ==
  /\ work < MaxQueries
  /\ last' = Query("latest_timestamp", <<>>, Returned(latest_timestamp(datapoints)))
  /\ work' = work + 1
  /\ prev' = datapoints
  /\ UNCHANGED <<datapoints, tick_size>>

Timerange ==
  /\ work < MaxQueries
  /\ last' = Query("timerange", <<>>, Returned(timerange(datapoints)))
  /\ work' = work + 1
  /\ prev' = datapoints
  /\ UNCHANGED <<datapoints, tick_size>>

WithTrades ==
  /\ work < MaxQueries
  /\ \E trades \in {<<>>} \cup Batches(QueryTrades, 1) :
       \E r \in with_trades(datapoints, tick_size, trades) :
         /\ datapoints' = r.receiver
         /\ last' = Query("with_trades", trades, Returned(r.new_series))
  /\ work' = work + 1
  /\ prev' = datapoints
  /\ UNCHANGED tick_size

\* the caller goes on to mutate the series with_trades returned: clear_trades,
\* or insert_trades_or_create_bucket with the same trades again
MutateNewSeries ==
  /\ work = MaxQueries
  /\ last.op = "with_trades"
  /\ \E new_series \in {clear_trades(last.result.value)}
                        \cup insert_trades_or_create_bucket(last.result.value, tick_size,
                                                            last.args) :
       last' = Query("with_trades_mutated", last.args, Returned(new_series))
  /\ work' = work + 1
  /\ prev' = datapoints
  /\ UNCHANGED <<datapoints, tick_size>>

QueryNext ==
  \/ CheckKlineIntegrity
  \/ SuggestTradeFetchRange
  \/ PriceScale
  \/ MinMaxPriceInRange
  \/ MaxQtyTsRange
  \/ BasePrice
  \/ LatestTimestamp
  \/ Timerange
  \/ WithTrades
  \/ MutateNewSeries

QuerySpec == QueryInit /\ [][QueryNext]_vars

\* ------------------------------------------------------------ two footprints

\* the trades of one batch for bucket 0
PocTrades == [time : {0}, price : Prices, qty : 0..MaxQty, is_sell : BOOLEAN]

\* the orders in which the trades of a batch may arrive
Reorderings(buffer) ==
  {[i \in DOMAIN buffer |-> buffer[p[i]]] :
     p \in {q \in [DOMAIN buffer -> DOMAIN buffer] :
              \A i, j \in DOMAIN buffer : i # j => q[i] # q[j]}}

\* the trades of a batch, one bucket later
one_bucket_later(buffer) ==
  [i \in DOMAIN buffer |-> [buffer[i] EXCEPT !.time = @ + aggr_time]]

PocInit ==
  /\ tick_size \in TickSizes
  /\ datapoints = TimeSeries_new(tick_size, <<>>)
  /\ last = Call("new", <<>>, <<>>, tick_size)
  /\ work = 0
  /\ prev = datapoints

\* insert_trades_or_create_bucket with a batch for bucket 0
FillFirstBucket ==
  /\ work = 0
  /\ \E buffer \in Batches(PocTrades, MaxBatch) :
       /\ datapoints' \in insert_trades_or_create_bucket(datapoints, tick_size, buffer)
       /\ last' = Call("insert_trades_or_create_bucket", <<>>, buffer, tick_size)
  /\ work' = 1
  /\ prev' = datapoints
  /\ UNCHANGED tick_size

\* insert_trades_or_create_bucket with the same trades for the next bucket, in
\* any order
FillSecondBucket ==
  /\ work = 1
  /\ \E buffer \in Reorderings(one_bucket_later(last.trades)) :
       /\ datapoints' \in insert_trades_or_create_bucket(datapoints, tick_size, buffer)
       /\ last' = Call("insert_trades_or_create_bucket", <<>>, buffer, tick_size)
  /\ work' = 2
  /\ prev' = datapoints
  /\ UNCHANGED tick_size

PocNext ==
  \/ FillFirstBucket
  \/ FillSecondBucket

PocSpec == PocInit /\ [][PocNext]_vars

\* ------------------------------------------------------------ properties

\* the bucket key of a timestamp: the greatest multiple of aggr_time not above it
key_of(time) == time - (time % aggr_time)

\* the bin keys a trade or a POC can have
BinPrices == 0..(MaxPrice + MaxTick)

bins_of(dps, k) == dps[k].footprint.trades

\* the greatest total quantity among the bins of a bucket
max_total(dps, k) == Max({total_qty(bins_of(dps, k)[p]) : p \in DOMAIN bins_of(dps, k)})

\* the side-rounded [low, high] of bucket b contains price
covers(dps, b, price) ==
  /\ round_to_side_step(dps[b].kline.low, TRUE, tick_size) <= price
  /\ round_to_side_step(dps[b].kline.high, FALSE, tick_size) >= price

\* the later buckets whose range contains the POC price of bucket a
fillers(dps, a) ==
  {b \in DOMAIN dps : b > a /\ covers(dps, b, poc_of(dps[a]).price)}

\* the positions of the trades of a batch whose bucket key is k
routed_to(buffer, k) == {i \in DOMAIN buffer : key_of(buffer[i].time) = k}

\* the number of trades recorded in bin p of bucket k
bin_count(dps, k, p) ==
  IF k \in DOMAIN dps /\ p \in DOMAIN bins_of(dps, k)
  THEN bins_of(dps, k)[p].buy_count + bins_of(dps, k)[p].sell_count
  ELSE 0

\* the quantity recorded in bin p of bucket k
bin_qty(dps, k, p) ==
  IF k \in DOMAIN dps /\ p \in DOMAIN bins_of(dps, k)
  THEN total_qty(bins_of(dps, k)[p])
  ELSE 0

\* the trades of a batch that fall in bin p of bucket k at the current step
falls_in(buffer, k, p, step) ==
  {i \in routed_to(buffer, k) : round_to_step(buffer[i].price, step) = p}

RECURSIVE sum_qty(_, _)
sum_qty(buffer, I) ==
  IF I = {} THEN 0
  ELSE LET i == Min(I) IN buffer[i].qty + sum_qty(buffer, I \ {i})

\* C1: after insert_trades_or_create_bucket with a non-empty batch, every bucket
\* with at least one bin has a POC whose price is the key of a bin of greatest
\* total quantity and whose volume is that greatest total.
C1_PocIsMaxBin ==
  (last.op = "insert_trades_or_create_bucket" /\ last.trades # <<>>) =>
    \A k \in DOMAIN datapoints :
      DOMAIN bins_of(datapoints, k) # {} =>
        /\ has_poc(datapoints[k])
        /\ poc_of(datapoints[k]).price \in DOMAIN bins_of(datapoints, k)
        /\ total_qty(bins_of(datapoints, k)[poc_of(datapoints[k]).price])
             = max_total(datapoints, k)
        /\ poc_of(datapoints[k]).volume = max_total(datapoints, k)

\* C2: a POC status Filled(at = t) stays Filled(at = t) across every call of
\* insert_klines, insert_trades_or_create_bucket, insert_trades_existing_buckets
\* and update_poc_status that leaves the bucket's POC price unchanged.
C2_FilledIsPermanent ==
  \A k \in DOMAIN prev :
       (/\ has_poc(prev[k])
        /\ poc_of(prev[k]).status.kind = "Filled"
        /\ last.op \in {"insert_klines", "insert_trades_or_create_bucket",
                         "insert_trades_existing_buckets", "update_poc_status"}
        /\ k \in DOMAIN datapoints
        /\ has_poc(datapoints[k])
        /\ poc_of(datapoints[k]).price = poc_of(prev[k]).price)
       => poc_of(datapoints[k]).status = poc_of(prev[k]).status

\* C3: after update_poc_status (so after insert_klines too), a bucket whose POC
\* price lies in the side-rounded [low, high] of some later bucket is
\* Filled(at = the earliest such bucket); a later one never overrides it.
C3_FirstFillWins ==
  last.op \in {"update_poc_status", "insert_klines"} =>
    \A a \in DOMAIN datapoints :
      (has_poc(datapoints[a]) /\ fillers(datapoints, a) # {}) =>
        poc_of(datapoints[a]).status = NPocFilled(Min(fillers(datapoints, a)))

\* C3 witness: two later buckets contain the POC price and the status names the
\* earlier one.
C3_Witness ==
  /\ last.op \in {"update_poc_status", "insert_klines"}
  /\ \E a \in DOMAIN datapoints :
       /\ has_poc(datapoints[a])
       /\ Cardinality(fillers(datapoints, a)) >= 2
       /\ poc_of(datapoints[a]).status = NPocFilled(Min(fillers(datapoints, a)))

\* C4: after update_poc_status, every bucket with a POC that no later bucket's
\* range contains is Naked, the bucket with the greatest key included.
C4_UnfilledIsNaked ==
  last.op \in {"update_poc_status", "insert_klines"} =>
    \A a \in DOMAIN datapoints :
      (has_poc(datapoints[a]) /\ fillers(datapoints, a) = {}) =>
        poc_of(datapoints[a]).status = NPocNaked

\* C5 as stated: every key of the bucket map is a multiple of the bucket width.
C5_KeysAligned == \A k \in DOMAIN datapoints : k % aggr_time = 0

\* C5 as amended: every key a call adds is a multiple of the bucket width or the
\* timestamp of a candle of that insert_klines call; trade insertion and
\* change_tick_size add aligned keys only.
C5_NewKeysAlignedOrCandle ==
  \A k \in (DOMAIN datapoints) \ (DOMAIN prev) :
       \/ k % aggr_time = 0
       \/ /\ last.op = "insert_klines"
          /\ \E i \in DOMAIN last.klines : last.klines[i].time = k

\* C5 witness: a trade with an unaligned timestamp was inserted and sits in the
\* bucket of the aligned key below it.
C5_Witness ==
  /\ last.op = "insert_trades_or_create_bucket"
  /\ \E i \in DOMAIN last.trades :
       /\ last.trades[i].time % aggr_time # 0
       /\ last.trades[i].time \notin DOMAIN datapoints
       /\ key_of(last.trades[i].time) \in DOMAIN datapoints
       /\ DOMAIN bins_of(datapoints, key_of(last.trades[i].time)) # {}

\* C6: insert_trades_or_create_bucket routes each trade to the bucket keyed
\* floor(time / aggr_time) * aggr_time; a missing bucket is created with open =
\* high = low = close = the price of the first trade of the batch routed to it
\* and volume (0, 0); every trade is added to its bucket's footprint.
C6_RoutesOrCreates ==
  last.op = "insert_trades_or_create_bucket" =>
       LET buffer == last.trades IN
       /\ DOMAIN datapoints =
            (DOMAIN prev) \cup {key_of(buffer[i].time) : i \in DOMAIN buffer}
       /\ \A k \in (DOMAIN datapoints) \ (DOMAIN prev) :
            LET first == buffer[Min(routed_to(buffer, k))]
            IN datapoints[k].kline =
                 [time |-> k, open |-> first.price, high |-> first.price,
                  low |-> first.price, close |-> first.price, volume |-> <<0, 0>>]
       /\ \A k \in DOMAIN datapoints, p \in BinPrices :
            /\ bin_count(datapoints, k, p) =
                 bin_count(prev, k, p)
                   + Cardinality(falls_in(buffer, k, p, tick_size))
            /\ bin_qty(datapoints, k, p) =
                 bin_qty(prev, k, p)
                   + sum_qty(buffer, falls_in(buffer, k, p, tick_size))

\* C6 witness: the first call passed two trades of different prices for one
\* bucket, which was created with the first trade's price.
C6_Witness ==
  /\ last.op = "insert_trades_or_create_bucket"
  /\ work = Len(last.trades)
  /\ Len(last.trades) = 2
  /\ key_of(last.trades[1].time) = key_of(last.trades[2].time)
  /\ last.trades[1].price # last.trades[2].price
  /\ datapoints[key_of(last.trades[1].time)].kline.open = last.trades[1].price
  /\ Cardinality(DOMAIN bins_of(datapoints, key_of(last.trades[1].time))) = 2

\* C7: insert_trades_existing_buckets never creates a bucket; a trade whose
\* rounded time has no bucket is dropped and changes no bucket's footprint, POC
\* or candle.
C7_ExistingBucketsOnly ==
  last.op = "insert_trades_existing_buckets" =>
       LET buffer == last.trades IN
       /\ DOMAIN datapoints = DOMAIN prev
       /\ \A k \in DOMAIN prev :
            /\ datapoints[k].kline = prev[k].kline
            /\ routed_to(buffer, k) = {} => datapoints[k] = prev[k]
            /\ \A p \in BinPrices :
                 bin_count(datapoints, k, p) =
                   bin_count(prev, k, p)
                     + Cardinality(falls_in(buffer, k, p, tick_size))

\* C7 witness: the batch held a trade for a missing bucket and a trade for an
\* existing one.
C7_Witness ==
  /\ last.op = "insert_trades_existing_buckets"
  /\ \E i, j \in DOMAIN last.trades :
       /\ key_of(last.trades[i].time) \notin DOMAIN datapoints
       /\ key_of(last.trades[j].time) \in DOMAIN datapoints
       /\ has_poc(datapoints[key_of(last.trades[j].time)])

\* the last candle of a batch with timestamp t
last_candle(klines, t) ==
  klines[Max({i \in DOMAIN klines : klines[i].time = t})]

\* C8: insert_klines is an upsert: every candle timestamp of the batch has a
\* bucket whose candle is the last candle of the batch with that timestamp,
\* also when the bucket existed; an existing bucket keeps its bins and its POC
\* price and volume, and a bucket at another timestamp keeps its candle.
C8_KlinesUpsert ==
  last.op = "insert_klines" =>
       LET klines == last.klines
           times == {klines[i].time : i \in DOMAIN klines}
       IN
       /\ DOMAIN datapoints = (DOMAIN prev) \cup times
       /\ \A t \in times : datapoints[t].kline = last_candle(klines, t)
       /\ \A k \in DOMAIN prev :
            /\ bins_of(datapoints, k) = bins_of(prev, k)
            /\ has_poc(datapoints[k]) = has_poc(prev[k])
            /\ has_poc(prev[k]) =>
                 /\ poc_of(datapoints[k]).price = poc_of(prev[k]).price
                 /\ poc_of(datapoints[k]).volume = poc_of(prev[k]).volume
            /\ k \notin times => datapoints[k].kline = prev[k].kline

\* C8 witness: two different candles of one timestamp were passed for a bucket
\* that holds trades, and the bucket shows the second.
C8_Witness ==
  /\ last.op = "insert_klines"
  /\ Len(last.klines) = 2
  /\ last.klines[1].time = last.klines[2].time
  /\ last.klines[1] # last.klines[2]
  /\ has_poc(datapoints[last.klines[2].time])
  /\ datapoints[last.klines[2].time].kline = last.klines[2]

\* the candles of a series in key order
candles_of(dps) ==
  LET keys == Ascending(DOMAIN dps) IN [i \in DOMAIN keys |-> dps[keys[i]].kline]

\* C9: after change_tick_size(s, T) every bucket has the bin keys of the
\* corresponding bucket of a series built by TimeSeries::new with step s over
\* the same candles and fed T (by either insertion).
C9_TickSizeRoundTrip ==
  last.op = "change_tick_size" =>
       LET fresh == TimeSeries_new(last.step, candles_of(prev))
       IN \A fed \in insert_trades_existing_buckets(fresh, last.step, last.trades)
                       \cup insert_trades_or_create_bucket(fresh, last.step, last.trades) :
            \A k \in DOMAIN datapoints :
              /\ k \in DOMAIN fed
              /\ DOMAIN bins_of(datapoints, k) = DOMAIN bins_of(fed, k)

\* C9 witness: the replay at step 2 put a trade of raw price 1 into bin 2.
C9_Witness ==
  /\ last.op = "change_tick_size"
  /\ last.step = 2
  /\ \E i \in DOMAIN last.trades :
       /\ last.trades[i].price = 1
       /\ key_of(last.trades[i].time) \in DOMAIN datapoints
       /\ DOMAIN bins_of(datapoints, key_of(last.trades[i].time)) = {2}

\* C10: change_tick_size(new_step, raw_trades) sets the price step and rebuilds
\* footprints only: the keys and every candle stay, no bucket is created for a
\* raw trade without one, and with no raw trades every footprint is empty
\* without a POC.
C10_TickSizeKeepsCandles ==
  last.op = "change_tick_size" =>
       /\ tick_size = last.step
       /\ DOMAIN datapoints = DOMAIN prev
       /\ \A k \in DOMAIN prev : datapoints[k].kline = prev[k].kline
       /\ last.trades = <<>> =>
            \A k \in DOMAIN datapoints : datapoints[k].footprint = KlineTrades_new

\* C10 witness: a raw trade without a bucket was passed to a series with one
\* whose footprint was rebuilt.
C10_Witness ==
  /\ last.op = "change_tick_size"
  /\ \E i, j \in DOMAIN last.trades :
       /\ key_of(last.trades[i].time) \notin DOMAIN datapoints
       /\ key_of(last.trades[j].time) \in DOMAIN datapoints
       /\ has_poc(datapoints[key_of(last.trades[j].time)])

\* the keys earliest + k * interval below latest
expected_keys(earliest, latest, interval) ==
  {t \in earliest..(latest - 1) : (t - earliest) % interval = 0}

gap_buckets(dps) == {k \in DOMAIN dps : DOMAIN bins_of(dps, k) = {}}

\* the last trade time of the nearest bucket with trades before key g
trade_before(dps, g) ==
  LET earlier == {k \in DOMAIN dps : k < g /\ DOMAIN bins_of(dps, k) # {}}
  IN IF earlier = {} THEN <<>> ELSE last_trade_t(dps[Max(earlier)].footprint)

\* the first trade time of the nearest bucket with trades after key g
trade_after(dps, g) ==
  LET later == {k \in DOMAIN dps : k > g /\ DOMAIN bins_of(dps, k) # {}}
  IN IF later = {} THEN <<>> ELSE first_trade_t(dps[Min(later)].footprint)

\* C12: when suggest_trade_fetch_range(visible_earliest, visible_latest)
\* returns (from, to) for a gap bucket with last trade time b before it and first
\* trade time a after it, from = max(b + 1, visible_earliest) and to =
\* min(a - 1, visible_latest): the window lies in the visible range, after b
\* and before a.
C12_FetchWindowBetweenTrades ==
  (/\ last.op = "suggest_trade_fetch_range"
   /\ last.result.value # <<>>
   /\ gap_buckets(datapoints) # {}
   /\ trade_before(datapoints, Max(gap_buckets(datapoints))) # <<>>
   /\ trade_after(datapoints, Max(gap_buckets(datapoints))) # <<>>) =>
    LET b == trade_before(datapoints, Max(gap_buckets(datapoints)))[1]
        a == trade_after(datapoints, Max(gap_buckets(datapoints)))[1]
        from == last.result.value[1][1]
        to == last.result.value[1][2]
    IN /\ from = Max({b + 1, last.args[1]})
       /\ to = Min({a - 1, last.args[2]})
       /\ last.args[1] <= from /\ to <= last.args[2]
       /\ b < from /\ to < a

\* C12 witness: a window was returned for a gap between a bucket with a trade
\* and a later bucket with a trade, cut by the trades and not by the visible
\* range.
C12_Witness ==
  /\ last.op = "suggest_trade_fetch_range"
  /\ last.result.value # <<>>
  /\ gap_buckets(datapoints) # {}
  /\ trade_before(datapoints, Max(gap_buckets(datapoints))) # <<>>
  /\ trade_after(datapoints, Max(gap_buckets(datapoints))) # <<>>
  /\ last.result.value[1][1] > last.args[1]
  /\ last.result.value[1][2] < last.args[2]

\* the window computed from gap bucket g, or <<>>
window_for(dps, g, visible_earliest, visible_latest) ==
  LET b == trade_before(dps, g)
      a == trade_after(dps, g)
      from == Max({IF b = <<>> THEN Min(DOMAIN dps) ELSE b[1] + 1, visible_earliest})
      to == Min({IF a = <<>> THEN Max(DOMAIN dps) ELSE a[1] - 1, visible_latest})
  IN IF (b = <<>> /\ a = <<>>) \/ ~(from < to) THEN <<>> ELSE <<(<<from, to>>)>>

\* C13: suggest_trade_fetch_range works from the bucket with the greatest key
\* among the buckets without a price bin; when every bucket has a trade, or the
\* series is empty, it returns None for every visible range.
C13_GapIsLatestEmptyBucket ==
  last.op = "suggest_trade_fetch_range" =>
    IF gap_buckets(datapoints) = {} THEN last.result = Returned(<<>>)
    ELSE last.result =
           Returned(window_for(datapoints, Max(gap_buckets(datapoints)),
                               last.args[1], last.args[2]))

\* C13 witness: of two buckets without trades the later one was used, where the
\* earlier one would have given a window.
C13_Witness ==
  /\ last.op = "suggest_trade_fetch_range"
  /\ Cardinality(gap_buckets(datapoints)) >= 2
  /\ window_for(datapoints, Min(gap_buckets(datapoints)), last.args[1], last.args[2])
       # <<>>
  /\ last.result =
       Returned(window_for(datapoints, Max(gap_buckets(datapoints)),
                           last.args[1], last.args[2]))
  /\ last.result.value = <<>>

\* the n greatest keys of a series (all keys when it has fewer)
newest(dps, n) == {k \in DOMAIN dps : Cardinality({j \in DOMAIN dps : j > k}) < n}

\* (greatest high, least low) over the buckets at keys, (0, 0) over none
high_low(dps, keys) ==
  IF keys = {} THEN <<0, 0>>
  ELSE <<Max({dps[k].kline.high : k \in keys}), Min({dps[k].kline.low : k \in keys})>>

\* C14: price_scale(lookback) returns (max of value_high, min of value_low) over
\* the min(lookback, N) buckets with the greatest keys of a series of N buckets:
\* the whole series for lookback >= N, and (0, 0) for lookback = 0 or an empty
\* series.
C14_PriceScaleOverNewest ==
  last.op = "price_scale" =>
    /\ last.result = Returned(high_low(datapoints, newest(datapoints, last.args[1])))
    /\ last.args[1] >= Cardinality(DOMAIN datapoints) =>
         last.result = Returned(high_low(datapoints, DOMAIN datapoints))
    /\ (last.args[1] = 0 \/ DOMAIN datapoints = {}) => last.result = Returned(<<0, 0>>)

\* C14 witness: a lookback shorter than the series gave another range than the
\* whole series has.
C14_Witness ==
  /\ last.op = "price_scale"
  /\ last.args[1] >= 1
  /\ last.args[1] < Cardinality(DOMAIN datapoints)
  /\ last.result = Returned(high_low(datapoints, newest(datapoints, last.args[1])))
  /\ last.result # Returned(high_low(datapoints, DOMAIN datapoints))

\* the keys of a series within [from, to]
keys_within(dps, from, to) == {k \in DOMAIN dps : from <= k /\ k <= to}

C16_InvertedRangeReturns ==
  /\ (last.op = "min_max_price_in_range" /\ last.args[1] > last.args[2]) =>
       last.result = Returned(<<>>)
  /\ (last.op = "max_qty_ts_range" /\ last.args[2] > last.args[3]) =>
       last.result = Returned(0)

\* C17: check_kline_integrity returns for every (earliest, latest, interval),
\* interval = 0 and timestamps next to u64::MAX included: it neither panics nor
\* runs forever.
C17_IntegrityAlwaysReturns ==
  last.op = "check_kline_integrity" => last.result.kind = "ok"

\* the timestamps of the trades of a batch routed to bucket k
routed_times(buffer, k) == {buffer[i].time : i \in routed_to(buffer, k)}

\* bucket k held no trade when the last call began to add trades to it
fresh_before(k) ==
  \/ last.op = "change_tick_size"
  \/ k \notin DOMAIN prev
  \/ DOMAIN bins_of(prev, k) = {}

\* C18: for the trades added to a bucket since its footprint was last cleared,
\* in whatever order, first_trade_time is the least and last_trade_time the
\* greatest of their timestamps; both are None exactly when no trade was added.
C18_TradeTimesAreExtremes ==
  last.op \in {"insert_trades_or_create_bucket", "insert_trades_existing_buckets",
               "change_tick_size"} =>
    \A k \in DOMAIN datapoints :
      fresh_before(k) =>
        LET times == routed_times(last.trades, k)
        IN /\ first_trade_t(datapoints[k].footprint) =
                (IF times = {} THEN <<>> ELSE <<Min(times)>>)
           /\ last_trade_t(datapoints[k].footprint) =
                (IF times = {} THEN <<>> ELSE <<Max(times)>>)

\* C19: calculate_poc called a second time on a bucket, directly after a call
\* on that bucket and so with no insertion in between, leaves the POC price and
\* the POC volume that the first call left.
C19_CalculatePocIdempotent ==
  (last.op = "calculate_poc" /\ last.again) =>
    LET before == prev[last.time].footprint.poc
        after == datapoints[last.time].footprint.poc
    IN /\ Len(after) = Len(before)
       /\ after # <<>> =>
            /\ after[1].price = before[1].price
            /\ after[1].volume = before[1].volume

\* the second of two calls on a bucket with two bins of the same, positive
\* total quantity
C19_Witness ==
  /\ last.op = "calculate_poc"
  /\ last.again
  /\ LET trades == datapoints[last.time].footprint.trades
     IN \E p, q \in DOMAIN trades :
          /\ p # q
          /\ total_qty(trades[p]) = total_qty(trades[q])
          /\ total_qty(trades[p]) > 0
          /\ datapoints[last.time].footprint.poc[1].volume = total_qty(trades[p])

\* C20: calculate_poc on a bucket whose footprint has no price bin changes
\* nothing, the POC record stays as it was (price, volume and status, or
\* absent); and a bucket that had a POC has none after a call only when the
\* call cleared the footprints (clear_trades, or change_tick_size which clears
\* first).
C20_CalculatePocNoBinsNoOp ==
  /\ (last.op = "calculate_poc" /\ DOMAIN prev[last.time].footprint.trades = {}) =>
       /\ datapoints[last.time].footprint.poc = prev[last.time].footprint.poc
       /\ datapoints = prev
  /\ \A k \in DOMAIN prev :
       (has_poc(prev[k]) /\ (k \notin DOMAIN datapoints \/ ~has_poc(datapoints[k]))) =>
         last.op \in {"clear_trades", "change_tick_size"}

\* calculate_poc was called on a bucket with an empty footprint while another
\* bucket holds a POC
C20_Witness ==
  /\ last.op = "calculate_poc"
  /\ DOMAIN prev[last.time].footprint.trades = {}
  /\ \E k \in DOMAIN datapoints : has_poc(datapoints[k])

\* C21: after clear_trades every bucket has no price bin and no POC, and the
\* key set and every bucket's candle (OHLC and volume) are as before the call.
C21_ClearTradesKeepsCandles ==
  last.op = "clear_trades" =>
    /\ DOMAIN datapoints = DOMAIN prev
    /\ \A k \in DOMAIN datapoints :
         /\ DOMAIN datapoints[k].footprint.trades = {}
         /\ ~has_poc(datapoints[k])
         /\ datapoints[k].kline = prev[k].kline

\* clear_trades was called on a series with a bucket that held bins and a POC
C21_Witness ==
  /\ last.op = "clear_trades"
  /\ \E k \in DOMAIN prev :
       /\ DOMAIN prev[k].footprint.trades # {}
       /\ has_poc(prev[k])

\* C22: with_trades leaves the receiver (keys, candles, bins, POC) as it was,
\* the series it returns is a state insert_trades_or_create_bucket(trades)
\* takes the receiver to, and a later mutation of the returned series leaves
\* the receiver as it was.
C22_WithTradesIndependentCopy ==
  /\ last.op \in {"with_trades", "with_trades_mutated"} => datapoints = prev
  /\ last.op = "with_trades" =>
       /\ last.result.kind = "ok"
       /\ last.result.value \in insert_trades_or_create_bucket(prev, tick_size, last.args)

\* the returned series got a trade the receiver does not hold and was then
\* mutated again
C22_Witness ==
  /\ last.op = "with_trades_mutated"
  /\ last.args # <<>>
  /\ last.result.value # datapoints
  /\ \E k \in DOMAIN datapoints : has_poc(datapoints[k])

\* the neutral result of a query on a series without buckets
neutral_result(op) ==
  CASE op = "base_price" -> 0
    [] op = "latest_timestamp" -> <<>>
    [] op = "timerange" -> <<0, 0>>
    [] op = "price_scale" -> <<0, 0>>
    [] op = "min_max_price_in_range" -> <<>>
    [] op = "suggest_trade_fetch_range" -> <<>>

\* C23: on a series without buckets base_price, latest_timestamp, timerange,
\* price_scale, min_max_price_in_range and suggest_trade_fetch_range return
\* their neutral result (0, absent, (0, 0), (0, 0), absent, nothing to fetch)
\* and do not fail; on a series with buckets base_price is the close of the
\* bucket with the greatest key and timerange is (least key, greatest key).
C23_EmptySeriesNeutralResults ==
  LET queries == {"base_price", "latest_timestamp", "timerange", "price_scale",
                  "min_max_price_in_range", "suggest_trade_fetch_range"}
  IN /\ (last.op \in queries /\ DOMAIN datapoints = {}) =>
          last.result = Returned(neutral_result(last.op))
     /\ (last.op = "base_price" /\ DOMAIN datapoints # {}) =>
          \E k \in DOMAIN datapoints :
            /\ \A j \in DOMAIN datapoints : j <= k
            /\ last.result = Returned(datapoints[k].kline.close)
     /\ (last.op = "timerange" /\ DOMAIN datapoints # {}) =>
          /\ last.result.kind = "ok"
          /\ last.result.value[1] \in DOMAIN datapoints
          /\ last.result.value[2] \in DOMAIN datapoints
          /\ \A j \in DOMAIN datapoints :
               last.result.value[1] <= j /\ j <= last.result.value[2]

\* min_max_price_in_range was asked on a series without buckets, with the
\* range inverted
C23_Witness ==
  /\ DOMAIN datapoints = {}
  /\ last.op = "min_max_price_in_range"
  /\ last.args[1] > last.args[2]

\* C24: a trade insertion leaves the open of every bucket that existed before
\* the call as it was, does not lower its high and does not raise its low; a
\* call after which an existing bucket's high is lower or its low is higher is
\* an insert_klines.
C24_TradesKeepOpenAndExtremes ==
  /\ last.op \in {"insert_trades_or_create_bucket", "insert_trades_existing_buckets"} =>
       \A k \in DOMAIN prev :
         /\ k \in DOMAIN datapoints
         /\ datapoints[k].kline.open = prev[k].kline.open
         /\ datapoints[k].kline.high >= prev[k].kline.high
         /\ datapoints[k].kline.low <= prev[k].kline.low
  /\ \A k \in (DOMAIN prev) \cap (DOMAIN datapoints) :
       (datapoints[k].kline.high < prev[k].kline.high
          \/ datapoints[k].kline.low > prev[k].kline.low) =>
         last.op = "insert_klines"

\* a trade priced off the open was inserted into a bucket that existed before
\* the call
C24_Witness ==
  /\ last.op \in {"insert_trades_or_create_bucket", "insert_trades_existing_buckets"}
  /\ \E i \in DOMAIN last.trades :
       /\ key_of(last.trades[i].time) \in DOMAIN prev
       /\ last.trades[i].price # prev[key_of(last.trades[i].time)].kline.open
       /\ bins_of(datapoints, key_of(last.trades[i].time))
            # bins_of(prev, key_of(last.trades[i].time))

\* the positions of the batch in non-decreasing time order
in_time_order(buffer) ==
  \A i, j \in DOMAIN buffer : i < j => buffer[i].time <= buffer[j].time

\* C25: a bucket created by insert_trades_or_create_bucket from a batch in
\* non-decreasing time order has, after the call, low <= price <= high for
\* every trade of the batch routed to it and close = the price of the last
\* trade routed to it.
C25_TradesWidenCandle ==
  (last.op = "insert_trades_or_create_bucket" /\ in_time_order(last.trades)) =>
    \A k \in (DOMAIN datapoints) \ (DOMAIN prev) :
      LET routed == routed_to(last.trades, k)
      IN /\ \A i \in routed :
              /\ datapoints[k].kline.low <= last.trades[i].price
              /\ last.trades[i].price <= datapoints[k].kline.high
         /\ datapoints[k].kline.close = last.trades[Max(routed)].price

\* bin now holds at least the quantities and counts of bin before
bin_not_below(now, before) ==
  /\ now.buy_qty >= before.buy_qty
  /\ now.sell_qty >= before.sell_qty
  /\ now.buy_count >= before.buy_count
  /\ now.sell_count >= before.sell_count

\* the bins of the series before the call that are gone or hold less after it
bins_dropped ==
  {<<k, p>> \in (DOMAIN prev) \X BinPrices :
     /\ p \in DOMAIN bins_of(prev, k)
     /\ \/ k \notin DOMAIN datapoints
        \/ p \notin DOMAIN bins_of(datapoints, k)
        \/ ~bin_not_below(bins_of(datapoints, k)[p], bins_of(prev, k)[p])}

\* C26: across a trade insertion no price bin loses buy quantity, sell
\* quantity, buy count or sell count; a bin is gone or holds less after a call
\* only when the call cleared the footprints (clear_trades, change_tick_size).
C26_BinTotalsNeverDecrease ==
  /\ last.op \in {"insert_trades_or_create_bucket", "insert_trades_existing_buckets"} =>
       bins_dropped = {}
  /\ bins_dropped # {} => last.op \in {"clear_trades", "change_tick_size"}

\* a trade of quantity 0 was added to a bin that held a positive quantity on
\* the trade's side
C26_Witness ==
  /\ last.op \in {"insert_trades_or_create_bucket", "insert_trades_existing_buckets"}
  /\ \E i \in DOMAIN last.trades :
       LET trade == last.trades[i]
           k == key_of(trade.time)
           p == round_to_step(trade.price, tick_size)
       IN /\ trade.qty = 0
          /\ k \in DOMAIN prev
          /\ p \in DOMAIN bins_of(prev, k)
          /\ (IF trade.is_sell THEN bins_of(prev, k)[p].sell_qty
              ELSE bins_of(prev, k)[p].buy_qty) > 0
          /\ (IF trade.is_sell THEN bins_of(datapoints, k)[p].sell_count
              ELSE bins_of(datapoints, k)[p].buy_count)
               > (IF trade.is_sell THEN bins_of(prev, k)[p].sell_count
                  ELSE bins_of(prev, k)[p].buy_count)

\* C27: every bucket with a computed POC has the status Naked or Filled, in
\* every state a TimeSeries operation leaves.
C27_ComputedPocHasStatus ==
  last.op # "calculate_poc" =>
    \A k \in DOMAIN datapoints :
      has_poc(datapoints[k]) => poc_of(datapoints[k]).status.kind \in {"Naked", "Filled"}

\* C28: for every bucket whose POC status is Naked, no bucket with a greater
\* key has a side-rounded [low, high] that contains the POC price.
C28_NakedIsUnrevisited ==
  \A a \in DOMAIN datapoints :
    (has_poc(datapoints[a]) /\ poc_of(datapoints[a]).status = NPocNaked) =>
      fillers(datapoints, a) = {}

\* buckets j and k hold the same price bins with the same quantities
same_bins(j, k) ==
  /\ DOMAIN bins_of(datapoints, j) = DOMAIN bins_of(datapoints, k)
  /\ \A p \in DOMAIN bins_of(datapoints, j) :
       /\ bins_of(datapoints, j)[p].buy_qty = bins_of(datapoints, k)[p].buy_qty
       /\ bins_of(datapoints, j)[p].sell_qty = bins_of(datapoints, k)[p].sell_qty

\* C29: two buckets whose footprints hold the same price bins with the same
\* quantities, each with its POC computed, have the same POC price.
C29_SameBinsSamePocPrice ==
  \A j, k \in DOMAIN datapoints :
    (same_bins(j, k) /\ has_poc(datapoints[j]) /\ has_poc(datapoints[k])) =>
      poc_of(datapoints[j]).price = poc_of(datapoints[k]).price

\* the bounds suggest_trade_fetch_range computes for gap bucket g
fetch_bounds(dps, g, visible_earliest, visible_latest) ==
  LET b == trade_before(dps, g)
      a == trade_after(dps, g)
  IN [from |-> Max({IF b = <<>> THEN Min(DOMAIN dps) ELSE Min({b[1] + 1, U64_MAX}),
                    visible_earliest}),
      to |-> Min({IF a = <<>> THEN Max(DOMAIN dps) ELSE Max({a[1] - 1, 0}),
                  visible_latest})]

\* C30: suggest_trade_fetch_range returns None when no bucket is without price
\* bins; for a gap bucket with a trade before or after it, it returns None
\* exactly when the computed bounds are inverted (from > to), and a window
\* whenever from <= to.
C30_NothingToFetchIffInverted ==
  last.op = "suggest_trade_fetch_range" =>
    IF gap_buckets(datapoints) = {} THEN last.result = Returned(<<>>)
    ELSE LET g == Max(gap_buckets(datapoints))
             bounds == fetch_bounds(datapoints, g, last.args[1], last.args[2])
         IN (trade_before(datapoints, g) # <<>> \/ trade_after(datapoints, g) # <<>>) =>
              /\ last.result.kind = "ok"
              /\ (last.result.value = <<>>) <=> (bounds.from > bounds.to)

\* C31: after a trade insertion every bucket that existed before and received
\* no trade of the batch is as it was: its price bins and its POC price, volume
\* and status.
C31_UntouchedBucketsKeepPoc ==
  last.op \in {"insert_trades_or_create_bucket", "insert_trades_existing_buckets"} =>
    \A k \in DOMAIN prev :
      routed_to(last.trades, k) = {} =>
        /\ k \in DOMAIN datapoints
        /\ datapoints[k].footprint = prev[k].footprint

\* a batch went to one bucket while another bucket held a POC with a status
\* that update_poc_status had set
C31_Witness ==
  /\ last.op \in {"insert_trades_or_create_bucket", "insert_trades_existing_buckets"}
  /\ \E j, k \in DOMAIN datapoints :
       /\ routed_to(last.trades, j) # {}
       /\ routed_to(last.trades, k) = {}
       /\ has_poc(datapoints[j])
       /\ k \in DOMAIN prev
       /\ has_poc(prev[k])
       /\ poc_of(prev[k]).status.kind \in {"Naked", "Filled"}

\* every trade of the batch rounds to a bucket of dps
all_routed(dps, buffer) == \A i \in DOMAIN buffer : key_of(buffer[i].time) \in DOMAIN dps

\* C32: from a state in which every trade of the batch rounds to an existing
\* bucket, insert_trades_existing_buckets and insert_trades_or_create_bucket
\* lead to the same resulting states (keys, candles, price bins and POC), and
\* the state reached by either is one of them.
C32_InsertionsAgreeOnExistingBuckets ==
  (/\ last.op \in {"insert_trades_or_create_bucket", "insert_trades_existing_buckets"}
   /\ all_routed(prev, last.trades)) =>
    /\ insert_trades_existing_buckets(prev, tick_size, last.trades)
         = insert_trades_or_create_bucket(prev, tick_size, last.trades)
    /\ datapoints \in insert_trades_existing_buckets(prev, tick_size, last.trades)
    /\ datapoints \in insert_trades_or_create_bucket(prev, tick_size, last.trades)

\* a batch of two trades went to existing buckets that already held bins
C32_Witness ==
  /\ last.op = "insert_trades_existing_buckets"
  /\ Len(last.trades) = 2
  /\ all_routed(prev, last.trades)
  /\ \E i \in DOMAIN last.trades :
       DOMAIN bins_of(prev, key_of(last.trades[i].time)) # {}
  /\ datapoints # prev

\* the value of a price bin under a cluster kind
bin_value(kind, bin) ==
  CASE kind = "BidAsk" -> Max({bin.buy_qty, bin.sell_qty})
    [] kind = "DeltaProfile" -> Max({bin.buy_qty - bin.sell_qty, bin.sell_qty - bin.buy_qty})
    [] kind = "VolumeProfile" -> bin.buy_qty + bin.sell_qty

\* the bins (bucket key, price) with key in [from, to] and price in [low, high]
bins_within(dps, from, to, high, low) ==
  {<<k, p>> \in keys_within(dps, from, to) \X BinPrices :
     p \in DOMAIN bins_of(dps, k) /\ low <= p /\ p <= high}

C34_FilledIsBackedByData ==
  \A k \in DOMAIN datapoints :
    (has_poc(datapoints[k]) /\ poc_of(datapoints[k]).status.kind = "Filled") =>
      LET t == poc_of(datapoints[k]).status.at
      IN /\ t \in DOMAIN datapoints
         /\ t > k
         /\ covers(datapoints, t, poc_of(datapoints[k]).price)

\* a Filled status is in place after a later call inserted trades elsewhere
C34_Witness ==
  /\ last.op \in {"insert_trades_or_create_bucket", "insert_trades_existing_buckets"}
  /\ last.trades # <<>>
  /\ \E k \in DOMAIN datapoints :
       /\ has_poc(datapoints[k])
       /\ poc_of(datapoints[k]).status.kind = "Filled"

\* C35: a bucket has a POC record exactly when its footprint has at least one
\* price bin.
C35_PocIffBins ==
  \A k \in DOMAIN datapoints :
    has_poc(datapoints[k]) <=> (DOMAIN bins_of(datapoints, k) # {})

\* change_tick_size replayed trades into one bucket and left another without
\* bins
C35_Witness ==
  /\ last.op = "change_tick_size"
  /\ \E j, k \in DOMAIN datapoints :
       /\ DOMAIN bins_of(prev, j) # {} /\ DOMAIN bins_of(prev, k) # {}
       /\ has_poc(datapoints[j])
       /\ ~has_poc(datapoints[k])

\* the sum over the bins at prices of a bucket of: the trade count, the buy
\* quantity or the sell quantity
RECURSIVE bins_sum(_, _, _)
bins_sum(bins, prices, what) ==
  IF prices = {} THEN 0
  ELSE LET p == Min(prices)
           v == CASE what = "count" -> bins[p].buy_count + bins[p].sell_count
                  [] what = "buy_qty" -> bins[p].buy_qty
                  [] what = "sell_qty" -> bins[p].sell_qty
       IN v + bins_sum(bins, prices \ {p}, what)

\* that sum for bucket k of dps, 0 for a bucket that does not exist
bucket_sum(dps, k, what) ==
  IF k \in DOMAIN dps THEN bins_sum(bins_of(dps, k), DOMAIN bins_of(dps, k), what) ELSE 0

\* that sum over the buckets at keys
RECURSIVE series_sum(_, _, _)
series_sum(dps, keys, what) ==
  IF keys = {} THEN 0
  ELSE LET k == Min(keys) IN bucket_sum(dps, k, what) + series_sum(dps, keys \ {k}, what)

\* what the trades of the batch stored in bucket k add to the sum
batch_sum(buffer, k, what) ==
  CASE what = "count" -> Cardinality(routed_to(buffer, k))
    [] what = "buy_qty" -> sum_qty(buffer, {i \in routed_to(buffer, k) : ~buffer[i].is_sell})
    [] what = "sell_qty" -> sum_qty(buffer, {i \in routed_to(buffer, k) : buffer[i].is_sell})

\* C36: every call leaves in every bucket, summed over its price bins, the
\* trade count and the buy and sell quantities it held before (nothing after a
\* call that clears the footprints) plus those of the trades of the batch routed
\* to the bucket; insert_trades_or_create_bucket with n trades raises the count
\* of the whole series by n.
C36_TradesConserved ==
  /\ \A what \in {"count", "buy_qty", "sell_qty"} :
       \A k \in DOMAIN datapoints :
         LET cleared == last.op \in {"clear_trades", "change_tick_size"}
             stored == last.op = "insert_trades_or_create_bucket"
                         \/ (last.op \in {"insert_trades_existing_buckets", "change_tick_size"}
                               /\ k \in DOMAIN prev)
         IN bucket_sum(datapoints, k, what) =
              (IF cleared THEN 0 ELSE bucket_sum(prev, k, what))
                + (IF stored THEN batch_sum(last.trades, k, what) ELSE 0)
  /\ last.op = "insert_trades_or_create_bucket" =>
       series_sum(datapoints, DOMAIN datapoints, "count")
         = series_sum(prev, DOMAIN prev, "count") + Len(last.trades)

\* a batch of a buy and a sell was inserted into a series that held a trade
C36_Witness ==
  /\ last.op = "insert_trades_or_create_bucket"
  /\ Len(last.trades) = 2
  /\ last.trades[1].is_sell /\ ~last.trades[2].is_sell
  /\ last.trades[1].qty > 0 /\ last.trades[2].qty > 0
  /\ series_sum(prev, DOMAIN prev, "count") > 0
  /\ series_sum(datapoints, DOMAIN datapoints, "count") = 3

\* series a and b have the same keys, candles, price bins and POC volumes
same_but_poc_price(a, b) ==
  /\ DOMAIN a = DOMAIN b
  /\ \A k \in DOMAIN a :
       /\ a[k].kline = b[k].kline
       /\ a[k].footprint.trades = b[k].footprint.trades
       /\ has_poc(a[k]) <=> has_poc(b[k])
       /\ has_poc(a[k]) => poc_of(a[k]).volume = poc_of(b[k]).volume

\* C37: the state insert_trades_or_create_bucket reaches with a batch has the
\* keys, candles, price bins (quantities, counts, first and last times) and POC
\* volumes of every state reached by inserting a front part A of the batch and
\* then the rest B with a second call.
C37_BatchSplitDoesNotMatter ==
  last.op = "insert_trades_or_create_bucket" =>
    \A n \in 0..Len(last.trades) :
      \A after_a \in insert_trades_or_create_bucket(prev, tick_size,
                                                    SubSeq(last.trades, 1, n)) :
        \A after_b \in insert_trades_or_create_bucket(after_a, tick_size,
                         SubSeq(last.trades, n + 1, Len(last.trades))) :
          same_but_poc_price(after_b, datapoints)

\* a batch of two trades for two buckets, one of them new, went into a series
\* that held trades
C37_Witness ==
  /\ last.op = "insert_trades_or_create_bucket"
  /\ Len(last.trades) = 2
  /\ key_of(last.trades[1].time) # key_of(last.trades[2].time)
  /\ \E k \in DOMAIN prev : DOMAIN bins_of(prev, k) # {}
  /\ DOMAIN datapoints # DOMAIN prev

\* C38: the first and last trade time of every price bin of the bucket with
\* key k lie in [k, k + aggr_time).
C38_TradeTimesInsideBucket ==
  \A k \in DOMAIN datapoints :
    \A p \in DOMAIN bins_of(datapoints, k) :
      LET bin == bins_of(datapoints, k)[p]
      IN /\ k <= bin.first_time /\ bin.first_time < k + aggr_time
         /\ k <= bin.last_time /\ bin.last_time < k + aggr_time

\* a bucket holds a trade made after its key, next to a candle bucket whose key
\* is no multiple of the bucket width
C38_Witness ==
  /\ \E k \in DOMAIN datapoints :
       \E p \in DOMAIN bins_of(datapoints, k) : bins_of(datapoints, k)[p].last_time > k
  /\ \E k \in DOMAIN datapoints : k % aggr_time # 0

\* C39: for the gap bucket of suggest_trade_fetch_range, a returned window
\* starts at max(least key, visible_earliest) when no earlier bucket has a
\* trade and ends at min(greatest key, visible_latest) when no later bucket has
\* one; when no bucket on either side has a trade the result is None.
C39_FetchWindowDefaultsToTimerange ==
  (last.op = "suggest_trade_fetch_range" /\ gap_buckets(datapoints) # {}) =>
    LET g == Max(gap_buckets(datapoints))
        b == trade_before(datapoints, g)
        a == trade_after(datapoints, g)
        window == last.result.value
    IN /\ last.result.kind = "ok"
       /\ (b = <<>> /\ a = <<>>) => window = <<>>
       /\ (b = <<>> /\ window # <<>>) =>
            window[1][1] = Max({Min(DOMAIN datapoints), last.args[1]})
       /\ (a = <<>> /\ window # <<>>) =>
            window[1][2] = Min({Max(DOMAIN datapoints), last.args[2]})

\* nothing to fetch was returned for a series of two candle buckets without
\* trades and a visible range that spans both
C39_Witness ==
  /\ last.op = "suggest_trade_fetch_range"
  /\ Cardinality(DOMAIN datapoints) >= 2
  /\ gap_buckets(datapoints) = DOMAIN datapoints
  /\ last.args[1] <= Min(DOMAIN datapoints)
  /\ last.args[2] >= Max(DOMAIN datapoints)
  /\ last.result = Returned(<<>>)

====
